---- MODULE Spec2Model ----
(***************************************************************************)
(* Model of scripts/ai_translate_adoc.py: the chunker (chunk_text), the    *)
(* glossary substitution (apply_glossary and the post-pass of              *)
(* translate_chunk), and the orchestrator (main, process_file,             *)
(* load_progress, save_progress) with the files it rewrites and the        *)
(* progress file it persists.                                              *)
(*                                                                         *)
(* A text is a sequence of one-character strings; NL is the newline.       *)
(* Python's 0-based offsets are kept: offset p of a text is element p + 1  *)
(* of the sequence.                                                        *)
(***************************************************************************)
EXTENDS Integers, Sequences, FiniteSets

VARIABLES
    \* chunk_text, one loop iteration at a time
    text, size, start, chunks, joined, cstate,
    \* glossary substitution
    gtext, glossary, once, twice, gstate,
    \* the orchestrator: the files on disk and the progress file
    disk, progress_file,
    \* main and process_file: position, walk cursor and local variables
    pc, idx, done_files, file_chunks, translated_chunks,
    \* history of the runs
    run, original, loaded, load_result, status, invoked, responses,
    persisted, lost, written_prior

chunkVars == <<text, size, start, chunks, joined, cstate>>
glossVars == <<gtext, glossary, once, twice, gstate>>
mainVars == <<disk, progress_file, pc, idx, done_files, file_chunks,
              translated_chunks, run, original, loaded, load_result, status,
              invoked, responses, persisted, lost, written_prior>>
vars == <<chunkVars, glossVars, mainVars>>

----------------------------------------------------------------------------
(* Bounds of the model *)

\* longest text handed to chunk_text
MaxTextLen == 5
\* largest chunk size handed to chunk_text (sizes are 1..MaxSize)
MaxSize == 4
\* longest text handed to the glossary substitution
MaxGText == 2
\* longest glossary term (source or target)
MaxTermLen == 2
\* most entries of a glossary
MaxGlossary == 1
\* longest content of a file when the first run starts
MaxFileLen == 2
\* the chunk size process_file passes to chunk_text: CHUNK_SIZE (10000 in
\* the source) scaled down to the lengths of the model's files
ChunkSize == 1
\* runs of main, one after the other on the same directory
MaxRuns == 2

----------------------------------------------------------------------------
(* Texts *)

NL == "\n"
\* the characters of the texts that are chunked: a letter and the newline
ChunkChars == {"a", NL}
\* the characters of glossary terms and of the texts they are applied to
GlossChars == {"a", "b"}

Min(a, b) == IF a < b THEN a ELSE b
Max(S) == CHOOSE x \in S : \A y \in S : y <= x

TextsUpTo(chars, n) == UNION {[1..k -> chars] : k \in 0..n}

\* text[a:b] of Python, for 0 <= a <= b <= len(text)
Slice(t, a, b) == SubSeq(t, a + 1, b)

RECURSIVE Concat(_)
\* "".join(seq)
Concat(seq) == IF seq = <<>> THEN <<>> ELSE Head(seq) \o Concat(Tail(seq))

RECURSIVE JoinNL(_)
\* "\n".join(seq)
JoinNL(seq) ==
    IF seq = <<>> THEN <<>>
    ELSE IF Len(seq) = 1 THEN Head(seq)
    ELSE Head(seq) \o <<NL>> \o JoinNL(Tail(seq))

----------------------------------------------------------------------------
(* The directory that main walks *)

\* what os.walk yields under the source directory, in its order
WalkOrder == <<"a.adoc", "notes.txt", "b.adoc">>
\* file.endswith(".adoc")
EndsWithAdoc(file) == file \in {"a.adoc", "b.adoc"}
AdocFiles == {WalkOrder[k] : k \in {j \in 1..Len(WalkOrder) : EndsWithAdoc(WalkOrder[j])}}

\* the characters of the files' contents when the first run starts
FileChars == {"a", NL}

----------------------------------------------------------------------------
(* The parts of the state a specification does not use *)

IdleChunk ==
    /\ text = <<>>
    /\ size = 1
    /\ start = 0
    /\ chunks = <<>>
    /\ joined = <<>>
    /\ cstate = "idle"

IdleGloss ==
    /\ gtext = <<>>
    /\ glossary = <<>>
    /\ once = <<>>
    /\ twice = <<>>
    /\ gstate = "idle"

IdleMain ==
    /\ disk = [f \in AdocFiles |-> <<>>]
    /\ progress_file = [kind |-> "absent", paths |-> {}]
    /\ pc = "idle"
    /\ idx = 1
    /\ done_files = {}
    /\ file_chunks = <<>>
    /\ translated_chunks = <<>>
    /\ run = 1
    /\ original = [f \in AdocFiles |-> <<>>]
    /\ loaded = {}
    /\ load_result = "none"
    /\ status = [f \in AdocFiles |-> "pending"]
    /\ invoked = {}
    /\ responses = [f \in AdocFiles |-> <<>>]
    /\ persisted = {}
    /\ lost = {}
    /\ written_prior = {}

----------------------------------------------------------------------------
(* chunk_text *)

\* text.rfind("\n\n", lo, hi): the highest offset p with lo <= p, p + 2 <= hi
\* at which "\n\n" starts, or -1
RFindBreak(t, lo, hi) ==
    LET found == {p \in lo..(hi - 2) : t[p + 1] = NL /\ t[p + 2] = NL}
    IN  IF found = {} THEN -1 ELSE Max(found)

\* mutant: the cut is made before the paragraph break, and a break at the
\* chunk's own start is accepted
ChunkEndCutBefore(t, st, sz) ==
    LET end == Min(st + sz, Len(t))
        newline_pos == RFindBreak(t, st, end)
    IN  IF end < Len(t) /\ newline_pos # -1 THEN newline_pos ELSE end

\* mutant: the paragraph break is never looked for
ChunkEndNoBreak(t, st, sz) == Min(st + sz, Len(t))

\* mutant: the paragraph break is looked for in the last chunk too
ChunkEndAlwaysBreak(t, st, sz) ==
    LET end == Min(st + sz, Len(t))
        newline_pos == RFindBreak(t, st, end)
    IN  IF newline_pos # -1 /\ newline_pos > st THEN newline_pos + 1 ELSE end

\* the value of `end` when one iteration of the loop appends text[start:end]
ChunkEnd(t, st, sz) ==
    LET end == Min(st + sz, Len(t))
        newline_pos == RFindBreak(t, st, end)
    IN  IF end < Len(t) /\ newline_pos # -1 /\ newline_pos > st
        THEN newline_pos + 1
        ELSE end

RECURSIVE ChunkFrom(_, _, _)
ChunkFrom(t, st, sz) ==
    IF st < Len(t)
    THEN <<Slice(t, st, ChunkEnd(t, st, sz))>> \o ChunkFrom(t, ChunkEnd(t, st, sz), sz)
    ELSE <<>>

\* chunk_text(text, size), as a function
chunk_text(t, sz) == ChunkFrom(t, 0, sz)

InitChunk ==
    /\ text \in TextsUpTo(ChunkChars, MaxTextLen)
    /\ size \in 1..MaxSize
    /\ start = 0
    /\ chunks = <<>>
    /\ joined = <<>>
    /\ cstate = "loop"
    /\ IdleGloss
    /\ IdleMain

\* one iteration of `while start < len(text)`
ChunkStep ==
    /\ cstate = "loop"
    /\ start < Len(text)
    /\ chunks' = Append(chunks, Slice(text, start, ChunkEnd(text, start, size)))
    /\ start' = ChunkEnd(text, start, size)
    /\ UNCHANGED <<text, size, joined, cstate, glossVars, mainVars>>

\* the loop ends and chunk_text returns; process_file joins what it returned
\* (with an identity translation) by "\n".join
ChunkReturn ==
    /\ cstate = "loop"
    /\ ~(start < Len(text))
    /\ cstate' = "returned"
    /\ joined' = JoinNL(chunks)
    /\ UNCHANGED <<text, size, start, chunks, glossVars, mainVars>>

NextChunk == ChunkStep \/ ChunkReturn

SpecChunk == InitChunk /\ [][NextChunk]_vars

----------------------------------------------------------------------------
(* Glossary substitution *)

RECURSIVE ReplaceNonEmpty(_, _, _)
\* str.replace(old, new) for a non-empty `old`: the occurrences of `old` are
\* found from the left, without overlap
ReplaceNonEmpty(t, old, new) ==
    IF Len(t) < Len(old) THEN t
    ELSE IF SubSeq(t, 1, Len(old)) = old
         THEN new \o ReplaceNonEmpty(SubSeq(t, Len(old) + 1, Len(t)), old, new)
         ELSE <<Head(t)>> \o ReplaceNonEmpty(Tail(t), old, new)

RECURSIVE ReplaceEmpty(_, _)
\* str.replace("", new): `new` before every character and at the end
ReplaceEmpty(t, new) ==
    IF t = <<>> THEN new ELSE new \o <<Head(t)>> \o ReplaceEmpty(Tail(t), new)

\* mutant: only the first occurrence is replaced
ReplaceFirstOnly(t, old, new) ==
    IF old = <<>> THEN new \o t
    ELSE IF \E p \in 0..(Len(t) - Len(old)) : Slice(t, p, p + Len(old)) = old
         THEN LET p == CHOOSE q \in 0..(Len(t) - Len(old)) :
                         /\ Slice(t, q, q + Len(old)) = old
                         /\ \A r \in 0..(q - 1) : Slice(t, r, r + Len(old)) # old
              IN  Slice(t, 0, p) \o new \o Slice(t, p + Len(old), Len(t))
         ELSE t

\* text.replace(old, new)
Replace(t, old, new) ==
    IF old = <<>> THEN ReplaceEmpty(t, new) ELSE ReplaceNonEmpty(t, old, new)

RECURSIVE apply_glossary(_, _)
\* apply_glossary(text, glossary): the entries in the dictionary's order, each
\* a pair <<zh, en>>
apply_glossary(t, g) ==
    IF g = <<>> THEN t
    ELSE apply_glossary(Replace(t, g[1][1], g[1][2]), Tail(g))

RECURSIVE enforce_glossary(_, _)
\* the post-pass of translate_chunk:
\* translated.replace(zh, en).replace(en, en) for every entry
enforce_glossary(t, g) ==
    IF g = <<>> THEN t
    ELSE enforce_glossary(
            Replace(Replace(t, g[1][1], g[1][2]), g[1][2], g[1][2]),
            Tail(g))

Terms == TextsUpTo(GlossChars, MaxTermLen)

\* the glossaries: a dictionary in its order, so no source term twice
Glossaries ==
    {g \in UNION {[1..k -> Terms \X Terms] : k \in 0..MaxGlossary} :
        \A i, j \in 1..Len(g) : i # j => g[i][1] # g[j][1]}

InitGlossary ==
    /\ gtext \in TextsUpTo(GlossChars, MaxGText)
    /\ glossary \in Glossaries
    /\ once = <<>>
    /\ twice = <<>>
    /\ gstate = "start"
    /\ IdleChunk
    /\ IdleMain

\* the substitution is applied to the text
ApplyOnce ==
    /\ gstate = "start"
    /\ once' = <<apply_glossary(gtext, glossary), enforce_glossary(gtext, glossary)>>
    /\ gstate' = "once"
    /\ UNCHANGED <<gtext, glossary, twice, chunkVars, mainVars>>

\* the substitution is applied to its own result
ApplyTwice ==
    /\ gstate = "once"
    /\ twice' = <<apply_glossary(once[1], glossary), enforce_glossary(once[2], glossary)>>
    /\ gstate' = "twice"
    /\ UNCHANGED <<gtext, glossary, once, chunkVars, mainVars>>

NextGlossary == ApplyOnce \/ ApplyTwice

SpecGlossary == InitGlossary /\ [][NextGlossary]_vars

----------------------------------------------------------------------------
(* The orchestrator: main, process_file, load_progress, save_progress *)

\* the remote completion that translate_chunk calls, as the upper-casing
\* translator: every letter is translated, the newlines are kept
ModelReply(t) == [k \in 1..Len(t) |-> IF t[k] = "a" THEN "A" ELSE t[k]]

\* what translate_chunk returns for a chunk: the reply, with the glossary
\* enforced on it
translate_chunk(chunk, g) == enforce_glossary(ModelReply(chunk), g)

\* what load_glossary can return: no entries (the file is missing), or the
\* entries of the file
RunGlossaries == {<<>>, <<<<<<"A">>, <<"T">>>>>>}

Truncated == [kind |-> "truncated", paths |-> {}]

\* the file of the walk that main is at
CurFile == WalkOrder[idx]

Running == {"start", "walk", "read", "translate", "write", "add", "save_open", "save_dump"}

InitMain ==
    /\ disk \in [AdocFiles -> TextsUpTo(FileChars, MaxFileLen)]
    /\ progress_file \in
         {[kind |-> "absent", paths |-> {}]}
         \cup {[kind |-> "valid", paths |-> S] : S \in SUBSET AdocFiles}
    /\ glossary \in RunGlossaries
    /\ pc = "start"
    /\ idx = 1
    /\ done_files = {}
    /\ file_chunks = <<>>
    /\ translated_chunks = <<>>
    /\ run = 1
    /\ original = disk
    /\ loaded = {}
    /\ load_result = "none"
    /\ status = [f \in AdocFiles |-> "pending"]
    /\ invoked = {}
    /\ responses = [f \in AdocFiles |-> <<>>]
    /\ persisted = progress_file.paths
    /\ lost = {}
    /\ written_prior = {}
    /\ IdleChunk
    /\ gtext = <<>> /\ once = <<>> /\ twice = <<>> /\ gstate = "idle"

unusedVars == <<chunkVars, gtext, glossary, once, twice, gstate>>

\* done_files = load_progress(): the set in the progress file, the empty set
\* when there is no file; json.load raises on a file that was cut short, and
\* nothing in main catches it
LoadProgress ==
    /\ pc = "start"
    /\ \/ /\ progress_file.kind = "absent"
          /\ done_files' = {}
          /\ loaded' = {}
          /\ load_result' = "ok"
          /\ lost' = lost
          /\ pc' = "walk"
       \/ /\ progress_file.kind = "valid"
          /\ done_files' = progress_file.paths
          /\ loaded' = progress_file.paths
          /\ load_result' = "ok"
          /\ lost' = lost \cup (persisted \ progress_file.paths)
          /\ pc' = "walk"
       \/ /\ progress_file.kind = "truncated"
          /\ done_files' = {}
          /\ loaded' = {}
          /\ load_result' = "raised"
          /\ lost' = lost \cup persisted
          /\ pc' = "aborted"
    /\ UNCHANGED <<disk, progress_file, idx, file_chunks, translated_chunks, run,
                   original, status, invoked, responses, persisted,
                   written_prior, unusedVars>>

\* the failure of process_file on the file: the except clause logs it, and
\* main goes on to the next file
FailFile(why) ==
    /\ status' = [status EXCEPT ![CurFile] = why]
    /\ idx' = idx + 1
    /\ pc' = "walk"

\* mutant: each translated chunk is written to the file as soon as it is
\* returned
TranslateChunkWritesThrough ==
    /\ pc = "translate"
    /\ Len(translated_chunks) < Len(file_chunks)
    /\ invoked' = invoked \cup {CurFile}
    /\ \/ /\ LET reply == translate_chunk(file_chunks[Len(translated_chunks) + 1], glossary)
             IN  /\ translated_chunks' = Append(translated_chunks, reply)
                 /\ responses' = [responses EXCEPT ![CurFile] = Append(@, reply)]
                 /\ disk' = [disk EXCEPT ![CurFile] = JoinNL(Append(translated_chunks, reply))]
          /\ UNCHANGED <<pc, idx, status>>
       \/ /\ FailFile("translate_failed")
          /\ UNCHANGED <<translated_chunks, responses, disk>>
    /\ UNCHANGED <<progress_file, done_files, file_chunks, run, original,
                   loaded, load_result, persisted, lost, written_prior, unusedVars>>

\* mutant: a file in done_files is handed to process_file like any other
WalkNextNoSkip ==
    /\ pc = "walk"
    /\ idx <= Len(WalkOrder)
    /\ \/ /\ ~EndsWithAdoc(CurFile)
          /\ idx' = idx + 1
          /\ UNCHANGED <<pc, status>>
       \/ /\ EndsWithAdoc(CurFile)
          /\ pc' = "read"
          /\ UNCHANGED <<idx, status>>
    /\ UNCHANGED <<disk, progress_file, done_files, file_chunks,
                   translated_chunks, run, original, loaded, load_result, invoked, responses,
                   persisted, lost, written_prior, unusedVars>>

\* one step of the walk: a file that is no .adoc file is passed over, a file
\* in done_files is skipped, any other is handed to process_file
WalkNext ==
    /\ pc = "walk"
    /\ idx <= Len(WalkOrder)
    /\ \/ /\ ~EndsWithAdoc(CurFile)
          /\ idx' = idx + 1
          /\ UNCHANGED <<pc, status>>
       \/ /\ EndsWithAdoc(CurFile)
          /\ CurFile \in done_files
          /\ status' = [status EXCEPT ![CurFile] = "skipped"]
          /\ idx' = idx + 1
          /\ UNCHANGED pc
       \/ /\ EndsWithAdoc(CurFile)
          /\ CurFile \notin done_files
          /\ pc' = "read"
          /\ UNCHANGED <<idx, status>>
    /\ UNCHANGED <<disk, progress_file, done_files, file_chunks,
                   translated_chunks, run, original, loaded, load_result, invoked, responses,
                   persisted, lost, written_prior, unusedVars>>

\* the walk is over and main returns
WalkEnd ==
    /\ pc = "walk"
    /\ idx > Len(WalkOrder)
    /\ pc' = "done"
    /\ UNCHANGED <<disk, progress_file, idx, done_files, file_chunks,
                   translated_chunks, run, original, loaded, load_result, status, invoked,
                   responses, persisted, lost, written_prior, unusedVars>>

\* process_file reads the file and chunks its content, or the read raises
ReadFile ==
    /\ pc = "read"
    /\ \/ /\ file_chunks' = chunk_text(disk[CurFile], ChunkSize)
          /\ translated_chunks' = <<>>
          /\ pc' = "translate"
          /\ UNCHANGED <<idx, status>>
       \/ /\ FailFile("read_failed")
          /\ UNCHANGED <<file_chunks, translated_chunks>>
    /\ UNCHANGED <<disk, progress_file, done_files, run, original, loaded, load_result,
                   invoked, responses, persisted, lost, written_prior,
                   unusedVars>>

\* one iteration of the loop over the chunks: translate_chunk returns the
\* translation of the next chunk, or raises
TranslateChunk ==
    /\ pc = "translate"
    /\ Len(translated_chunks) < Len(file_chunks)
    /\ invoked' = invoked \cup {CurFile}
    /\ \/ /\ LET reply == translate_chunk(file_chunks[Len(translated_chunks) + 1], glossary)
             IN  /\ translated_chunks' = Append(translated_chunks, reply)
                 /\ responses' = [responses EXCEPT ![CurFile] = Append(@, reply)]
          /\ UNCHANGED <<pc, idx, status>>
       \/ /\ FailFile("translate_failed")
          /\ UNCHANGED <<translated_chunks, responses>>
    /\ UNCHANGED <<disk, progress_file, done_files, file_chunks, run, original,
                   loaded, load_result, persisted, lost, written_prior, unusedVars>>

\* mutant: the path is recorded as soon as the file is opened for writing
WriteOpenRecordsFirst ==
    /\ pc = "translate"
    /\ Len(translated_chunks) = Len(file_chunks)
    /\ disk' = [disk EXCEPT ![CurFile] = <<>>]
    /\ done_files' = done_files \cup {CurFile}
    /\ pc' = "write"
    /\ UNCHANGED <<idx, status>>
    /\ UNCHANGED <<progress_file, file_chunks, translated_chunks, run,
                   original, loaded, load_result, invoked, responses, persisted, lost,
                   written_prior, unusedVars>>

\* every chunk is translated: open(path, "w") cuts the file to nothing, or
\* raises and leaves it as it was
WriteOpen ==
    /\ pc = "translate"
    /\ Len(translated_chunks) = Len(file_chunks)
    /\ \/ /\ disk' = [disk EXCEPT ![CurFile] = <<>>]
          /\ pc' = "write"
          /\ UNCHANGED <<idx, status>>
       \/ /\ FailFile("write_failed")
          /\ UNCHANGED disk
    /\ UNCHANGED <<progress_file, done_files, file_chunks, translated_chunks, run,
                   original, loaded, load_result, invoked, responses, persisted, lost,
                   written_prior, unusedVars>>

\* f.write("\n".join(translated_chunks)) and the file is closed, or the write
\* raises and leaves the file cut
WriteData ==
    /\ pc = "write"
    /\ \/ /\ disk' = [disk EXCEPT ![CurFile] = JoinNL(translated_chunks)]
          /\ status' = [status EXCEPT ![CurFile] = "written"]
          /\ pc' = "add"
          /\ UNCHANGED idx
       \/ /\ FailFile("write_failed")
          /\ UNCHANGED disk
    /\ UNCHANGED <<progress_file, done_files, file_chunks, translated_chunks, run,
                   original, loaded, load_result, invoked, responses, persisted, lost,
                   written_prior, unusedVars>>

\* done_files.add(path)
AddDone ==
    /\ pc = "add"
    /\ done_files' = done_files \cup {CurFile}
    /\ pc' = "save_open"
    /\ UNCHANGED <<disk, progress_file, idx, file_chunks, translated_chunks, run,
                   original, loaded, load_result, status, invoked, responses, persisted, lost,
                   written_prior, unusedVars>>

\* save_progress: open(PROGRESS_FILE, "w") cuts the progress file to nothing,
\* or raises and leaves it as it was
SaveOpen ==
    /\ pc = "save_open"
    /\ \/ /\ progress_file' = Truncated
          /\ pc' = "save_dump"
          /\ UNCHANGED <<idx, status>>
       \/ /\ FailFile("save_failed")
          /\ UNCHANGED progress_file
    /\ UNCHANGED <<disk, done_files, file_chunks, translated_chunks, run,
                   original, loaded, load_result, invoked, responses, persisted, lost,
                   written_prior, unusedVars>>

\* save_progress: json.dump(list(done_files)) and the file is closed, or the
\* dump raises and leaves the progress file cut
SaveDump ==
    /\ pc = "save_dump"
    /\ \/ /\ progress_file' = [kind |-> "valid", paths |-> done_files]
          /\ persisted' = persisted \cup done_files
          /\ status' = [status EXCEPT ![CurFile] = "done"]
          /\ idx' = idx + 1
          /\ pc' = "walk"
       \/ /\ FailFile("save_failed")
          /\ UNCHANGED <<progress_file, persisted>>
    /\ UNCHANGED <<disk, done_files, file_chunks, translated_chunks, run,
                   original, loaded, load_result, invoked, responses, lost, written_prior,
                   unusedVars>>

\* the process is terminated from outside, wherever it is
Crash ==
    /\ pc \in Running
    /\ pc' = "crashed"
    /\ UNCHANGED <<disk, progress_file, idx, done_files, file_chunks,
                   translated_chunks, run, original, loaded, load_result, status, invoked,
                   responses, persisted, lost, written_prior, unusedVars>>

\* the files that the run has completely written with their translation
WrittenNow == {f \in AdocFiles : status[f] \in {"written", "save_failed", "done"}}

\* main is run again on the same directory: nothing of the process is kept
Restart ==
    /\ pc \in {"done", "crashed", "aborted"}
    /\ run < MaxRuns
    /\ run' = run + 1
    /\ pc' = "start"
    /\ idx' = 1
    /\ done_files' = {}
    /\ file_chunks' = <<>>
    /\ translated_chunks' = <<>>
    /\ original' = disk
    /\ loaded' = {}
    /\ load_result' = "none"
    /\ status' = [f \in AdocFiles |-> "pending"]
    /\ invoked' = {}
    /\ responses' = [f \in AdocFiles |-> <<>>]
    /\ written_prior' = written_prior \cup WrittenNow
    /\ UNCHANGED <<disk, progress_file, persisted, lost, unusedVars>>

Next ==
    \/ LoadProgress
    \/ WalkNext
    \/ WalkEnd
    \/ ReadFile
    \/ TranslateChunk
    \/ WriteOpen
    \/ WriteData
    \/ AddDone
    \/ SaveOpen
    \/ SaveDump
    \/ Crash
    \/ Restart

Init == InitMain

Spec == Init /\ [][Next]_vars

----------------------------------------------------------------------------
(* Properties of the orchestrator (Spec) *)

\* the chunks of the content the file had when the run started
OriginalChunks(f) == chunk_text(original[f], ChunkSize)

\* the file holds the join, in order, of the translations of all the chunks
\* of its original content
HoldsTranslation(f) ==
    /\ Len(responses[f]) = Len(OriginalChunks(f))
    /\ \A k \in 1..Len(responses[f]) :
         responses[f][k] = translate_chunk(OriginalChunks(f)[k], glossary)
    /\ disk[f] = JoinNL(responses[f])

\* the paths that the run itself recorded, in memory or in the progress file
RunRecorded ==
    IF load_result = "ok"
    THEN (done_files \cup progress_file.paths) \ loaded
    ELSE {}

\* C2: a file on which the translator raised keeps its original content and
\* is recorded nowhere; when main returns every .adoc file of the walk was
\* processed or skipped; and a file whose processing succeeded holds its
\* translation and is recorded
C2_FailureIsolation ==
    /\ \A f \in AdocFiles :
         status[f] = "translate_failed" =>
            /\ disk[f] = original[f]
            /\ f \notin done_files
            /\ f \notin progress_file.paths
    /\ pc = "done" =>
         \A f \in AdocFiles :
            /\ status[f] # "pending"
            /\ status[f] = "done" =>
                 /\ HoldsTranslation(f)
                 /\ f \in done_files
                 /\ progress_file.kind = "valid" => f \in progress_file.paths

\* C2 witness: main returned; the translator raised on the second chunk of
\* the first file, and the second file was translated and recorded
C2_Witness ==
    /\ pc = "done"
    /\ status["a.adoc"] = "translate_failed"
    /\ Len(responses["a.adoc"]) >= 1
    /\ status["b.adoc"] = "done"
    /\ disk["b.adoc"] # original["b.adoc"]
    /\ progress_file = [kind |-> "valid", paths |-> {"b.adoc"}]

\* C3 as claimed: the translator is invoked for no path of the loaded
\* progress set, and, when main returns, was invoked for every other .adoc
\* path (that process_file could read)
C3_TranslatorIffNotInProgress ==
    /\ invoked \cap loaded = {}
    /\ pc = "done" =>
         \A f \in AdocFiles \ loaded :
            status[f] # "read_failed" => f \in invoked

\* C3 amended: the translator is invoked for no path of the loaded progress
\* set, and, when main returns, was invoked for every other .adoc path whose
\* content was read and is not empty; it is not invoked for an empty file
C3_TranslatorIffNotInProgressNonEmpty ==
    /\ invoked \cap loaded = {}
    /\ \A f \in invoked : original[f] # <<>>
    /\ pc = "done" =>
         \A f \in AdocFiles \ loaded :
            (status[f] # "read_failed" /\ original[f] # <<>>) => f \in invoked

\* C3 witness: a second run returned, having skipped a path of the progress
\* set and invoked the translator for the other file
C3_Witness ==
    /\ pc = "done"
    /\ run = 2
    /\ loaded = {"a.adoc"}
    /\ status["a.adoc"] = "skipped"
    /\ invoked = {"b.adoc"}

\* C4: the paths in the progress file only grow, and no load_progress ever
\* misses a path whose save had completed before, wherever the process was
\* terminated
C4_CrashDurability ==
    /\ lost = {}
    /\ progress_file.kind = "valid" => persisted \subseteq progress_file.paths

\* C7: a file whose translation was completely written in an earlier run is
\* not handed to the translator again, and is in the progress file after the
\* next save_progress that succeeds
C7_WrittenFilesRecorded ==
    /\ \A f \in invoked : f \notin written_prior
    /\ (progress_file.kind = "valid" /\ \E f \in AdocFiles : status[f] = "done")
          => written_prior \subseteq progress_file.paths

\* C10: every path the run recorded, in memory or in the progress file, names
\* a file whose write completed and that holds the join of the translations
\* of all its chunks in order
C10_RecordedImpliesWritten ==
    \A f \in RunRecorded :
        /\ status[f] \in {"written", "save_failed", "done"}
        /\ HoldsTranslation(f)

\* C10 witness: the run recorded, in memory and in the progress file, a file
\* of two chunks
C10_Witness ==
    \E f \in AdocFiles :
        /\ f \in RunRecorded
        /\ f \in done_files
        /\ progress_file.kind = "valid" /\ f \in progress_file.paths
        /\ Len(responses[f]) >= 2

----------------------------------------------------------------------------
(* Properties of chunk_text (SpecChunk) *)

\* the offset in `text` at which chunk k starts: the length of the chunks before it
ChunkStart(k) == Len(Concat(SubSeq(chunks, 1, k - 1)))

\* the offsets p, strictly after offset st, at which a paragraph break "\n\n"
\* lies wholly inside the size limit text[st : st + size]
BreaksInRange(st) ==
    {p \in (st + 1)..(st + size - 2) :
        p + 2 <= Len(text) /\ text[p + 1] = NL /\ text[p + 2] = NL}

\* C1: once chunk_text has returned, "\n".join of the chunks it returned (the
\* join process_file makes) is the original text
C1_JoinRoundTrip == cstate = "returned" => joined = text

C8_ShortTextOneChunk ==
    (cstate = "returned" /\ Len(text) < size) => Len(chunks) = 1

\* C8 amended: a non-empty text shorter than the size is returned as exactly
\* one chunk, the text itself; the empty text is returned as no chunk
C8_ShortNonEmptyOneChunk ==
    (cstate = "returned" /\ Len(text) < size) =>
        IF text = <<>> THEN chunks = <<>> ELSE chunks = <<text>>

\* C8 witness: chunk_text returned for a non-empty text shorter than the size
\* that holds a paragraph break
C8_Witness ==
    /\ cstate = "returned"
    /\ 0 < Len(text) /\ Len(text) < size
    /\ \E p \in 1..(Len(text) - 2) : text[p + 1] = NL /\ text[p + 2] = NL

\* C9: every iteration advances the cursor, so no chunk is empty, the cursor
\* is the length of what was cut so far and never passes the end of the text,
\* and chunk_text returns with the cursor exactly at the end of the text
C9_CursorAdvances ==
    /\ \A k \in 1..Len(chunks) : chunks[k] # <<>>
    /\ start = Len(Concat(chunks))
    /\ Len(chunks) <= start
    /\ start <= Len(text)
    /\ cstate = "returned" => start = Len(text)

\* C9 witness: chunk_text returned after at least two iterations, one of
\* which cut at a paragraph break
C9_Witness ==
    /\ cstate = "returned"
    /\ Len(chunks) >= 2
    /\ \E k \in 1..(Len(chunks) - 1) : Len(chunks[k]) < size

----------------------------------------------------------------------------
(* Properties of the glossary substitution (SpecGlossary) *)

CharsOf(t) == {t[k] : k \in 1..Len(t)}

\* every source and target term is non-empty, and no character of a target
\* term occurs in a source term
DisjointTerms(g) ==
    /\ \A k \in 1..Len(g) : g[k][1] # <<>> /\ g[k][2] # <<>>
    /\ \A j, k \in 1..Len(g) : CharsOf(g[j][1]) \cap CharsOf(g[k][2]) = {}

====
